---- MODULE Spec2Model ----
(***************************************************************************)
(* A model of package nilo (github.com/javiorfo/nilo): the generic         *)
(* Option[T] container of option.go, its map family, its default           *)
(* resolution and its JSON marshalling.                                    *)
(*                                                                         *)
(* An Option[T] is a struct holding one pointer, value *T.  The model      *)
(* keeps a heap of T cells and represents an Option by the address it      *)
(* holds (NilPtr for the nil pointer).  One mutable binding of type        *)
(* Option[T] is followed through the calls made on it; `last` records the  *)
(* arguments and the results of the most recent call.                      *)
(***************************************************************************)
EXTENDS Integers, Sequences, FiniteSets, TLC

VARIABLES T, heap, o, last

vars == <<T, heap, o, last>>

(* ------------------------------ bounds --------------------------------- *)

\* Number of T cells that may be allocated in one behaviour.
MaxHeap == 2

\* Largest magnitude of the int values that are drawn as inputs.
MaxInt == 12

(* ------------------------------ values --------------------------------- *)

\* The nil pointer: Option[T]{} holds it (option.go:193-195).
NilPtr == 0

\* The instantiations of T: a built-in type without Default, a struct that
\* implements Default (option_test.go:10-16) and a nilable type (the nil
\* []int of examples/example.go:12-14).
Types == {"int", "testStruct", "intSlice"}

IntValues == {0 - MaxInt, 0, 1, MaxInt}

\* A Go string is a sequence of characters.
DefaultProperty == <<"D", "e", "f", "a", "u", "l", "t">>

\* testStruct{Property string}
StructValues ==
    { [Property |-> s] : s \in { <<>>, DefaultProperty, <<"a", "\"">>, <<"\\">> } }

\* A []int is nil, or a (possibly empty) sequence of ints.
NilSlice == [isNil |-> TRUE, elems |-> <<>>]

SliceValues ==
    { NilSlice,
      [isNil |-> FALSE, elems |-> <<>>],
      [isNil |-> FALSE, elems |-> <<1>>],
      [isNil |-> FALSE, elems |-> <<0 - MaxInt, 0>>] }

Values(t) ==
    CASE t = "int" -> IntValues
      [] t = "testStruct" -> StructValues
      [] t = "intSlice" -> SliceValues

\* The zero value of T: `var def T`, `*new(T)`.
Zero(t) ==
    CASE t = "int" -> 0
      [] t = "testStruct" -> [Property |-> <<>>]
      [] t = "intSlice" -> NilSlice

\* Does the zero value of T satisfy Default[T] (extra.go:11-13)?
ImplementsDefault(t) == t = "testStruct"

\* func (t testStruct) Default() testStruct
Default(def) == [Property |-> DefaultProperty]

\* defaultImplOrNew without the Default case.
defaultImplOrNewZero(t) == Zero(t)

defaultImplOrNew(t) ==
    IF ImplementsDefault(t) THEN Default(Zero(t)) ELSE Zero(t)

(* ------------------------------- heap ---------------------------------- *)

\* Addresses of the cells allocated so far.
Addrs(h) == 1..Len(h)

\* The pointers a caller can hold: nil or an allocated address.
Ptrs(h) == {NilPtr} \cup Addrs(h)

\* &value of a value that escapes: a fresh cell.
New(h, v) == [h |-> Append(h, v), p |-> Len(h) + 1]

\* *p = v, for a non-nil p.
Store(h, p, v) == [h EXCEPT ![p] = v]

\* An optional Go value: <<>> when there is none, <<v>> otherwise.
NoValue == <<>>

Val(v) == <<v>>

(* ------------------------- option.go: queries -------------------------- *)

\* IsNone with the comparison dropped.
IsNoneAlways(p) == p >= NilPtr

IsNone(p) == p = NilPtr

IsSome(p) == p # NilPtr

\* The panic value of a nil pointer dereference.
NilDeref == "invalid memory address or nil pointer dereference"

\* func (o Option[T]) Unwrap() T { return *o.value }
Unwrap(h, p) ==
    IF p = NilPtr
      THEN [panic |-> Val(NilDeref), val |-> NoValue]
      ELSE [panic |-> NoValue, val |-> Val(h[p])]

\* Expect without its own panic: the nil dereference of Unwrap shows instead.
ExpectUnwraps(h, p, msg) == Unwrap(h, p)

\* func (o Option[T]) Expect(msg string) T
Expect(h, p, msg) ==
    IF IsSome(p)
      THEN Unwrap(h, p)
      ELSE [panic |-> Val(msg), val |-> NoValue]

(* ----------------------- option.go: constructors ----------------------- *)

\* func None[T any]() Option[T]
None == NilPtr

\* func Some[T any](value T) Option[T] { return Option[T]{&value} }
Some(h, v) == New(h, v)

\* SomePtr that wraps a copy of what the pointer points to.
SomePtrCopies(h, p) == IF p = NilPtr THEN [h |-> h, p |-> None] ELSE Some(h, h[p])

\* func SomePtr[T any](value *T) Option[T] { return Option[T]{value} }
SomePtr(h, p) == [h |-> h, p |-> p]

\* FromResult that ignores the error.
FromResultAlways(h, v, err) == Some(h, v)

\* func FromResult[T any](value T, err error) Option[T]
FromResult(h, v, err) ==
    IF err THEN [h |-> h, p |-> None] ELSE Some(h, v)


(* ------------------------ option.go: map family ------------------------ *)
\* A callback is a function over Values(T); a supplier is the value it returns.

\* func (o Option[T]) MapOrBool(def bool, mapper func(T) bool) bool
MapOrBool(h, p, def, mapper) ==
    IF IsSome(p)
      THEN [val |-> mapper[Unwrap(h, p).val[1]], calls |-> 1,
            panic |-> Unwrap(h, p).panic]
      ELSE [val |-> def, calls |-> 0, panic |-> NoValue]

\* func (o Option[T]) MapOrDefault(mapper func(T) T) T
MapOrDefault(t, h, p, mapper) ==
    IF IsSome(p)
      THEN [val |-> Val(mapper[Unwrap(h, p).val[1]]), calls |-> 1, defaults |-> 0,
            panic |-> Unwrap(h, p).panic]
      ELSE [val |-> Val(defaultImplOrNew(t)), calls |-> 0, defaults |-> 1,
            panic |-> NoValue]

\* func (o Option[T]) UnwrapOrDefault() T
UnwrapOrDefault(t, h, p) ==
    IF IsSome(p)
      THEN [val |-> Unwrap(h, p).val, defaults |-> 0, panic |-> Unwrap(h, p).panic]
      ELSE [val |-> Val(defaultImplOrNew(t)), defaults |-> 1, panic |-> NoValue]

(* ------------------------- option.go: mutators ------------------------- *)
\* A mutator yields the heap and the binding's pointer after the call.

\* Take without `o.value = nil`.
TakeKeeps(h, p) == [h |-> h, o |-> p, ret |-> p, panic |-> NoValue]

\* func (o *Option[T]) Take() Option[T]
Take(h, p) == [h |-> h, o |-> NilPtr, ret |-> p, panic |-> NoValue]

\* TakeIf that evaluates the predicate a second time before it takes.
TakeIfTwice(h, p, predicate) ==
    LET m == MapOrBool(h, p, FALSE, predicate)
    IN  IF m.val /\ MapOrBool(h, p, FALSE, predicate).val
          THEN [h |-> h, o |-> Take(h, p).o, ret |-> Take(h, p).ret,
                calls |-> m.calls + MapOrBool(h, p, FALSE, predicate).calls,
                panic |-> m.panic]
          ELSE [h |-> h, o |-> p, ret |-> None, calls |-> m.calls, panic |-> m.panic]

\* TakeIf with the test inverted.
TakeIfNot(h, p, predicate) ==
    LET m == MapOrBool(h, p, TRUE, predicate)
    IN  IF ~ m.val
          THEN [h |-> h, o |-> Take(h, p).o, ret |-> Take(h, p).ret,
                calls |-> m.calls, panic |-> m.panic]
          ELSE [h |-> h, o |-> p, ret |-> None, calls |-> m.calls, panic |-> m.panic]

\* func (o *Option[T]) TakeIf(predicate func(T) bool) Option[T]
TakeIf(h, p, predicate) ==
    LET m == MapOrBool(h, p, FALSE, predicate)
    IN  IF m.val
          THEN [h |-> h, o |-> Take(h, p).o, ret |-> Take(h, p).ret,
                calls |-> m.calls, panic |-> m.panic]
          ELSE [h |-> h, o |-> p, ret |-> None, calls |-> m.calls, panic |-> m.panic]

\* Replace that overwrites the value in the cell the binding points to.
ReplaceInPlace(h, p, value) ==
    IF IsSome(p)
      THEN [h |-> Store(h, p, value), o |-> p, ret |-> p, panic |-> NoValue]
      ELSE LET r == Some(h, value)
           IN  [h |-> r.h, o |-> r.p, ret |-> r.p, panic |-> NoValue]

\* Replace returning the Option it replaced.
ReplaceReturnsOld(h, p, value) ==
    LET r == Some(h, value)
    IN  [h |-> r.h, o |-> r.p, ret |-> p, panic |-> NoValue]

\* func (o *Option[T]) Replace(value T) Option[T]
Replace(h, p, value) ==
    LET r == Some(h, value)
    IN  [h |-> r.h, o |-> r.p, ret |-> r.p, panic |-> NoValue]

\* Insert that keeps a value that is already there.
InsertIfNone(h, p, value) ==
    IF IsNone(p)
      THEN LET r == Some(h, value) IN [h |-> r.h, o |-> r.p, panic |-> NoValue]
      ELSE [h |-> h, o |-> p, panic |-> NoValue]

\* func (o *Option[T]) Insert(value T)
Insert(h, p, value) ==
    LET r == Some(h, value) IN [h |-> r.h, o |-> r.p, panic |-> NoValue]

\* GetOrInsertWith without the IsNone test.
GetOrInsertWithAlways(h, p, supplier) ==
    LET r == Some(h, supplier)
    IN  [h |-> r.h, o |-> r.p, val |-> Unwrap(r.h, r.p).val, calls |-> 1,
         panic |-> Unwrap(r.h, r.p).panic]

\* func (o *Option[T]) GetOrInsertWith(supplier func() T) T
GetOrInsertWith(h, p, supplier) ==
    IF IsNone(p)
      THEN LET r == Some(h, supplier)
           IN  [h |-> r.h, o |-> r.p, val |-> Unwrap(r.h, r.p).val, calls |-> 1,
                panic |-> Unwrap(r.h, r.p).panic]
      ELSE [h |-> h, o |-> p, val |-> Unwrap(h, p).val, calls |-> 0,
            panic |-> Unwrap(h, p).panic]

\* func (o *Option[T]) GetOrInsert(value T) T
GetOrInsert(h, p, value) == GetOrInsertWith(h, p, value)

\* func (o *Option[T]) GetOrInsertDefault() T
GetOrInsertDefault(t, h, p) ==
    LET r == GetOrInsertWith(h, p, defaultImplOrNew(t))
    IN  [h |-> r.h, o |-> r.o, val |-> r.val, calls |-> r.calls,
         defaults |-> r.calls, panic |-> r.panic]

(* ---------------------- option.go: unwrapping -------------------------- *)

\* What a callback that returns an Option returns: an Option the caller
\* holds (its pointer), or Some of a value, built when the callback runs.
HeldOption(q) == [p |-> q, fresh |-> NoValue]

FreshSome(v) == [p |-> NilPtr, fresh |-> Val(v)]

Realize(h, res) ==
    IF res.fresh = NoValue THEN [h |-> h, p |-> res.p] ELSE Some(h, res.fresh[1])

\* UnwrapOr without the IsSome test.
UnwrapOrUnchecked(h, p, other) ==
    [val |-> Unwrap(h, p).val, panic |-> Unwrap(h, p).panic]

\* func (o Option[T]) UnwrapOr(other T) T
UnwrapOr(h, p, other) ==
    IF IsSome(p)
      THEN [val |-> Unwrap(h, p).val, panic |-> Unwrap(h, p).panic]
      ELSE [val |-> Val(other), panic |-> NoValue]

\* UnwrapOrElse that returns what the supplier gives in every case.
UnwrapOrElseAlways(h, p, supplier) ==
    [val |-> Val(supplier), calls |-> 1, panic |-> NoValue]

\* func (o Option[T]) UnwrapOrElse(supplier func() T) T
UnwrapOrElse(h, p, supplier) ==
    IF IsSome(p)
      THEN [val |-> Unwrap(h, p).val, calls |-> 0, panic |-> Unwrap(h, p).panic]
      ELSE [val |-> Val(supplier), calls |-> 1, panic |-> NoValue]

\* func (o Option[T]) UnwrapUnchecked() *T { return o.value }
UnwrapUnchecked(p) == [ptr |-> p, panic |-> NoValue]

\* func (o Option[T]) OkOr(err error) (*T, error)
\* A nil error is <<>>, a non-nil one <<e>>.
OkOr(p, err) ==
    IF IsSome(p)
      THEN [ptr |-> p, err |-> NoValue, panic |-> NoValue]
      ELSE [ptr |-> NilPtr, err |-> err, panic |-> NoValue]

\* OkOrElse that builds the error before it looks at the Option.
OkOrElseEager(p, err) ==
    IF IsSome(p)
      THEN [ptr |-> p, err |-> NoValue, calls |-> 1, panic |-> NoValue]
      ELSE [ptr |-> NilPtr, err |-> err, calls |-> 1, panic |-> NoValue]

\* func (o Option[T]) OkOrElse(err func() error) (*T, error)
OkOrElse(p, err) ==
    IF IsSome(p)
      THEN [ptr |-> p, err |-> NoValue, calls |-> 0, panic |-> NoValue]
      ELSE [ptr |-> NilPtr, err |-> err, calls |-> 1, panic |-> NoValue]

\* func (o Option[T]) OrElse(supplier func() Option[T]) Option[T]
OrElse(h, p, supplier) ==
    IF IsNone(p)
      THEN LET r == Realize(h, supplier)
           IN  [h |-> r.h, ret |-> r.p, calls |-> 1, panic |-> NoValue]
      ELSE LET r == Some(h, Unwrap(h, p).val[1])
           IN  [h |-> r.h, ret |-> r.p, calls |-> 0, panic |-> Unwrap(h, p).panic]

\* func (o Option[T]) IsSomeAnd(predicate func(T) bool) bool
IsSomeAnd(h, p, predicate) ==
    IF IsSome(p)
      THEN [out |-> predicate[Unwrap(h, p).val[1]], calls |-> 1,
            panic |-> Unwrap(h, p).panic]
      ELSE [out |-> FALSE, calls |-> 0, panic |-> NoValue]

\* IsNoneOr that is false on None.
IsNoneOrFalse(h, p, predicate) ==
    IF IsSome(p)
      THEN [out |-> predicate[Unwrap(h, p).val[1]], calls |-> 1,
            panic |-> Unwrap(h, p).panic]
      ELSE [out |-> FALSE, calls |-> 0, panic |-> NoValue]

\* func (o Option[T]) IsNoneOr(predicate func(T) bool) bool
IsNoneOr(h, p, predicate) ==
    IF IsSome(p)
      THEN [out |-> predicate[Unwrap(h, p).val[1]], calls |-> 1,
            panic |-> Unwrap(h, p).panic]
      ELSE [out |-> TRUE, calls |-> 0, panic |-> NoValue]

\* func (o Option[T]) MapOr(def T, mapper func(T) T) T
MapOr(h, p, def, mapper) ==
    IF IsSome(p)
      THEN [val |-> Val(mapper[Unwrap(h, p).val[1]]), calls |-> 1,
            panic |-> Unwrap(h, p).panic]
      ELSE [val |-> Val(def), calls |-> 0, panic |-> NoValue]

\* func (o Option[T]) MapOrString(def string, mapper func(T) string) string
MapOrString(h, p, def, mapper) ==
    IF IsSome(p)
      THEN [val |-> mapper[Unwrap(h, p).val[1]], calls |-> 1,
            panic |-> Unwrap(h, p).panic]
      ELSE [val |-> def, calls |-> 0, panic |-> NoValue]

\* func (o Option[T]) MapOrInt(def int, mapper func(T) int) int
MapOrInt(h, p, def, mapper) ==
    IF IsSome(p)
      THEN [val |-> mapper[Unwrap(h, p).val[1]], calls |-> 1,
            panic |-> Unwrap(h, p).panic]
      ELSE [val |-> def, calls |-> 0, panic |-> NoValue]

\* func (o Option[T]) MapOrElse(supplier func() T, mapper func(T) T) T
MapOrElse(h, p, supplier, mapper) ==
    IF IsSome(p)
      THEN [val |-> Val(mapper[Unwrap(h, p).val[1]]), calls |-> 1, orCalls |-> 0,
            panic |-> Unwrap(h, p).panic]
      ELSE [val |-> Val(supplier), calls |-> 0, orCalls |-> 1, panic |-> NoValue]

\* func (o Option[T]) MapOrElseString(supplier func() string, mapper func(T) string) string
MapOrElseString(h, p, supplier, mapper) ==
    IF IsSome(p)
      THEN [val |-> mapper[Unwrap(h, p).val[1]], calls |-> 1, orCalls |-> 0,
            panic |-> Unwrap(h, p).panic]
      ELSE [val |-> supplier, calls |-> 0, orCalls |-> 1, panic |-> NoValue]

\* func (o Option[T]) MapOrElseInt(supplier func() int, mapper func(T) int) int
MapOrElseInt(h, p, supplier, mapper) ==
    IF IsSome(p)
      THEN [val |-> mapper[Unwrap(h, p).val[1]], calls |-> 1, orCalls |-> 0,
            panic |-> Unwrap(h, p).panic]
      ELSE [val |-> supplier, calls |-> 0, orCalls |-> 1, panic |-> NoValue]

\* func (o Option[T]) MapOrElseBool(supplier func() bool, mapper func(T) bool) bool
MapOrElseBool(h, p, supplier, mapper) ==
    IF IsSome(p)
      THEN [val |-> mapper[Unwrap(h, p).val[1]], calls |-> 1, orCalls |-> 0,
            panic |-> Unwrap(h, p).panic]
      ELSE [val |-> supplier, calls |-> 0, orCalls |-> 1, panic |-> NoValue]

\* func (o Option[T]) OkAndResult(apply func(T) (T, error)) Option[T]
\* apply gives a value and an error (<<>> when nil).
OkAndResult(h, p, apply) ==
    IF IsSome(p) /\ apply[Unwrap(h, p).val[1]].err = NoValue
      THEN LET r == Some(h, apply[Unwrap(h, p).val[1]].val)
           IN  [h |-> r.h, ret |-> r.p, calls |-> 1, panic |-> Unwrap(h, p).panic]
      ELSE [h |-> h, ret |-> None, calls |-> IF IsSome(p) THEN 1 ELSE 0,
            panic |-> NoValue]

\* func (o Option[T]) AndResult(apply func(T) (T, error)) Option[T]
\* The earlier name of OkAndResult (Value/Nil for Some/None).
AndResult(h, p, apply) ==
    IF IsSome(p) /\ apply[Unwrap(h, p).val[1]].err = NoValue
      THEN LET r == Some(h, apply[Unwrap(h, p).val[1]].val)
           IN  [h |-> r.h, ret |-> r.p, calls |-> 1, panic |-> Unwrap(h, p).panic]
      ELSE [h |-> h, ret |-> None, calls |-> IF IsSome(p) THEN 1 ELSE 0,
            panic |-> NoValue]

\* func (o Option[T]) AndPtrResult(apply func(T) (*T, error)) Option[T]
\* apply gives a pointer (nil or into the heap) and an error.
AndPtrResult(h, p, apply) ==
    IF /\ IsSome(p)
       /\ apply[Unwrap(h, p).val[1]].err = NoValue
       /\ apply[Unwrap(h, p).val[1]].ptr # NilPtr
      THEN LET r == Some(h, h[apply[Unwrap(h, p).val[1]].ptr])
           IN  [h |-> r.h, ret |-> r.p, calls |-> 1, panic |-> Unwrap(h, p).panic]
      ELSE [h |-> h, ret |-> None, calls |-> IF IsSome(p) THEN 1 ELSE 0,
            panic |-> NoValue]

(* ------------------------ option.go: combinators ----------------------- *)
\* These methods have a value receiver: they work on a copy of the Option and
\* reach the binding only through the heap.

\* And returning its receiver.
AndSelf(p, other) ==
    [ret |-> IF IsSome(p) /\ IsSome(other) THEN p ELSE None, panic |-> NoValue]

\* func (o Option[T]) And(other Option[T]) Option[T]
And(p, other) ==
    [ret |-> IF IsSome(p) /\ IsSome(other) THEN other ELSE None, panic |-> NoValue]

\* func (o Option[T]) Or(other Option[T]) Option[T]
Or(p, other) ==
    [ret |-> IF IsSome(p) THEN p ELSE IF IsSome(other) THEN other ELSE None,
     panic |-> NoValue]

\* func (o Option[T]) Xor(other Option[T]) Option[T]
Xor(p, other) ==
    [ret |-> IF IsSome(p) /\ IsNone(other) THEN p
             ELSE IF IsSome(other) /\ IsNone(p) THEN other
             ELSE None,
     panic |-> NoValue]

\* Filter that returns its receiver instead of a new Some.
FilterShares(h, p, filter) ==
    IF IsSome(p) /\ filter[Unwrap(h, p).val[1]]
      THEN [h |-> h, ret |-> p, calls |-> 1, panic |-> Unwrap(h, p).panic]
      ELSE [h |-> h, ret |-> None, calls |-> IF IsSome(p) THEN 1 ELSE 0,
            panic |-> NoValue]

\* Filter that keeps the value the predicate rejects.
FilterNot(h, p, filter) ==
    IF IsSome(p) /\ ~ filter[Unwrap(h, p).val[1]]
      THEN LET r == Some(h, Unwrap(h, p).val[1])
           IN  [h |-> r.h, ret |-> r.p, calls |-> 1, panic |-> Unwrap(h, p).panic]
      ELSE [h |-> h, ret |-> None, calls |-> IF IsSome(p) THEN 1 ELSE 0,
            panic |-> NoValue]

\* func (o Option[T]) Filter(filter func(T) bool) Option[T]
Filter(h, p, filter) ==
    IF IsSome(p) /\ filter[Unwrap(h, p).val[1]]
      THEN LET r == Some(h, Unwrap(h, p).val[1])
           IN  [h |-> r.h, ret |-> r.p, calls |-> 1, panic |-> Unwrap(h, p).panic]
      ELSE [h |-> h, ret |-> None, calls |-> IF IsSome(p) THEN 1 ELSE 0,
            panic |-> NoValue]

\* func (o Option[T]) Inspect(consumer func(T)) Option[T]
Inspect(h, p) ==
    IF IsSome(p)
      THEN [ret |-> p, calls |-> 1, seen |-> Unwrap(h, p).val,
            panic |-> Unwrap(h, p).panic]
      ELSE [ret |-> p, calls |-> 0, seen |-> NoValue, panic |-> NoValue]

\* InspectOrElse with the else dropped: or() runs in every case.
InspectOrElseBoth(h, p) ==
    IF IsSome(p)
      THEN [calls |-> 1, orCalls |-> 1, seen |-> Unwrap(h, p).val,
            panic |-> Unwrap(h, p).panic]
      ELSE [calls |-> 0, orCalls |-> 1, seen |-> NoValue, panic |-> NoValue]

\* func (o Option[T]) InspectOrElse(consumer func(T), or func())
InspectOrElse(h, p) ==
    IF IsSome(p)
      THEN [calls |-> 1, orCalls |-> 0, seen |-> Unwrap(h, p).val,
            panic |-> Unwrap(h, p).panic]
      ELSE [calls |-> 0, orCalls |-> 1, seen |-> NoValue, panic |-> NoValue]

\* func (o Option[T]) Consume(consumer func(T))
Consume(h, p) ==
    IF IsSome(p)
      THEN [calls |-> 1, seen |-> Unwrap(h, p).val, panic |-> Unwrap(h, p).panic]
      ELSE [calls |-> 0, seen |-> NoValue, panic |-> NoValue]

\* AndThen that wraps the value itself instead of returning fn's Option.
AndThenKeeps(h, p, fn) ==
    IF IsSome(p)
      THEN LET r == Some(h, Unwrap(h, p).val[1])
           IN  [h |-> r.h, ret |-> r.p, calls |-> 1, panic |-> Unwrap(h, p).panic]
      ELSE [h |-> h, ret |-> None, calls |-> 0, panic |-> NoValue]

\* func (o Option[T]) AndThen(fn func(T) Option[T]) Option[T]
AndThen(h, p, fn) ==
    IF IsSome(p)
      THEN LET r == Realize(h, fn[Unwrap(h, p).val[1]])
           IN  [h |-> r.h, ret |-> r.p, calls |-> 1, panic |-> Unwrap(h, p).panic]
      ELSE [h |-> h, ret |-> None, calls |-> 0, panic |-> NoValue]

\* Map that overwrites the receiver's cell instead of building a new Option.
MapInPlace(h, p, mapper) ==
    IF IsSome(p)
      THEN [h |-> [h EXCEPT ![p] = mapper[Unwrap(h, p).val[1]]], ret |-> p,
            calls |-> 1, panic |-> Unwrap(h, p).panic]
      ELSE [h |-> h, ret |-> None, calls |-> 0, panic |-> NoValue]

\* Map that returns the receiver's value unmapped.
MapSkips(h, p, mapper) ==
    IF IsSome(p)
      THEN LET r == Some(h, Unwrap(h, p).val[1])
           IN  [h |-> r.h, ret |-> r.p, calls |-> 0, panic |-> Unwrap(h, p).panic]
      ELSE [h |-> h, ret |-> None, calls |-> 0, panic |-> NoValue]

\* func (o Option[T]) Map(mapper func(T) T) Option[T]
Map(h, p, mapper) ==
    IF IsSome(p)
      THEN LET r == Some(h, mapper[Unwrap(h, p).val[1]])
           IN  [h |-> r.h, ret |-> r.p, calls |-> 1, panic |-> Unwrap(h, p).panic]
      ELSE [h |-> h, ret |-> None, calls |-> 0, panic |-> NoValue]

\* The Option[R] a MapTo method returns is kept by value: <<>> for None,
\* <<r>> for Some(r).

\* func (o Option[T]) MapToString(mapper func(T) string) Option[string]
MapToString(h, p, mapper) ==
    IF IsSome(p)
      THEN [out |-> Val(mapper[Unwrap(h, p).val[1]]), calls |-> 1,
            panic |-> Unwrap(h, p).panic]
      ELSE [out |-> NoValue, calls |-> 0, panic |-> NoValue]

\* func (o Option[T]) MapToInt(mapper func(T) int) Option[int]
MapToInt(h, p, mapper) ==
    IF IsSome(p)
      THEN [out |-> Val(mapper[Unwrap(h, p).val[1]]), calls |-> 1,
            panic |-> Unwrap(h, p).panic]
      ELSE [out |-> NoValue, calls |-> 0, panic |-> NoValue]

\* func (o Option[T]) MapToBool(mapper func(T) bool) Option[bool]
MapToBool(h, p, mapper) ==
    IF IsSome(p)
      THEN [out |-> Val(mapper[Unwrap(h, p).val[1]]), calls |-> 1,
            panic |-> Unwrap(h, p).panic]
      ELSE [out |-> NoValue, calls |-> 0, panic |-> NoValue]

(* ----------------------- optional.go: Optional[T] ---------------------- *)
\* Optional[T] holds one pointer, as Option[T] does.

\* func (o Optional[T]) IsPresent() bool
IsPresent(p) == p # NilPtr

\* func (o Optional[T]) Get() T
Get(h, p) == Unwrap(h, p)

\* func (o Optional[T]) IfPresentOrElse(consumer func(T), or func())
IfPresentOrElse(h, p) ==
    IF IsPresent(p)
      THEN [calls |-> 1, orCalls |-> 1, seen |-> Get(h, p).val,
            panic |-> Get(h, p).panic]
      ELSE [calls |-> 0, orCalls |-> 1, seen |-> NoValue, panic |-> NoValue]

(* --------------------------- encoding/json ----------------------------- *)
\* JSON text is a sequence of characters.

Null == <<"n", "u", "l", "l">>

Digits == <<"0", "1", "2", "3", "4", "5", "6", "7", "8", "9">>

IsDigit(c) == \E i \in 1..10 : Digits[i] = c

DigitVal(c) == CHOOSE d \in 0..9 : Digits[d + 1] = c

RECURSIVE EncodeNat(_)
EncodeNat(n) ==
    IF n < 10 THEN <<Digits[n + 1]>>
    ELSE EncodeNat(n \div 10) \o <<Digits[(n % 10) + 1]>>

\* An int is written in decimal, with a sign when negative.
EncodeInt(n) == IF n < 0 THEN <<"-">> \o EncodeNat(0 - n) ELSE EncodeNat(n)

RECURSIVE ParseNat(_)
ParseNat(s) ==
    IF Len(s) = 1 THEN DigitVal(s[1])
    ELSE 10 * ParseNat(SubSeq(s, 1, Len(s) - 1)) + DigitVal(s[Len(s)])

\* A JSON integer literal: digits without a leading zero.
ValidNat(s) ==
    /\ Len(s) >= 1
    /\ \A i \in 1..Len(s) : IsDigit(s[i])
    /\ Len(s) > 1 => s[1] # "0"

DecodeError == [err |-> TRUE, val |-> NoValue]

Decoded(v) == [err |-> FALSE, val |-> Val(v)]

DecodeInt(s) ==
    LET neg == Len(s) >= 1 /\ s[1] = "-"
        body == IF neg THEN Tail(s) ELSE s
    IN  IF ValidNat(body)
          THEN Decoded(IF neg THEN 0 - ParseNat(body) ELSE ParseNat(body))
          ELSE DecodeError

\* In a JSON string, the quote and the backslash are escaped.
RECURSIVE Escape(_)
Escape(cs) ==
    IF cs = <<>> THEN <<>>
    ELSE (IF Head(cs) \in {"\"", "\\"} THEN <<"\\", Head(cs)>> ELSE <<Head(cs)>>)
         \o Escape(Tail(cs))

EncodeString(cs) == <<"\"">> \o Escape(cs) \o <<"\"">>

RECURSIVE Unescape(_)
Unescape(s) ==
    IF s = <<>> THEN Decoded(<<>>)
    ELSE IF s[1] = "\"" THEN DecodeError
    ELSE IF s[1] = "\\"
      THEN IF Len(s) >= 2 /\ s[2] \in {"\"", "\\"}
             THEN LET r == Unescape(SubSeq(s, 3, Len(s)))
                  IN  IF r.err THEN DecodeError ELSE Decoded(<<s[2]>> \o r.val[1])
             ELSE DecodeError
      ELSE LET r == Unescape(Tail(s))
           IN  IF r.err THEN DecodeError ELSE Decoded(<<s[1]>> \o r.val[1])

DecodeString(s) ==
    IF Len(s) >= 2 /\ s[1] = "\"" /\ s[Len(s)] = "\""
      THEN Unescape(SubSeq(s, 2, Len(s) - 1))
      ELSE DecodeError

\* testStruct is written as an object with its one exported field.
ObjPrefix == <<"{", "\"", "P", "r", "o", "p", "e", "r", "t", "y", "\"", ":">>

EncodeStruct(v) == ObjPrefix \o EncodeString(v.Property) \o <<"}">>

DecodeStruct(s) ==
    IF s = <<"{", "}">> THEN Decoded([Property |-> <<>>])
    ELSE IF /\ Len(s) > Len(ObjPrefix) + 1
            /\ SubSeq(s, 1, Len(ObjPrefix)) = ObjPrefix
            /\ s[Len(s)] = "}"
      THEN LET d == DecodeString(SubSeq(s, Len(ObjPrefix) + 1, Len(s) - 1))
           IN  IF d.err THEN DecodeError ELSE Decoded([Property |-> d.val[1]])
      ELSE DecodeError

RECURSIVE JoinInts(_)
JoinInts(xs) ==
    IF xs = <<>> THEN <<>>
    ELSE IF Len(xs) = 1 THEN EncodeInt(xs[1])
    ELSE EncodeInt(Head(xs)) \o <<",">> \o JoinInts(Tail(xs))

\* A nil slice is written as null, any other slice as an array.
EncodeSlice(v) ==
    IF v.isNil THEN Null ELSE <<"[">> \o JoinInts(v.elems) \o <<"]">>

\* The pieces of s between commas.
RECURSIVE Split(_)
Split(s) ==
    IF \E i \in 1..Len(s) : s[i] = ","
      THEN LET i == CHOOSE k \in 1..Len(s) :
                      s[k] = "," /\ \A j \in 1..(k - 1) : s[j] # ","
           IN  <<SubSeq(s, 1, i - 1)>> \o Split(SubSeq(s, i + 1, Len(s)))
      ELSE <<s>>

DecodeSlice(s) ==
    IF Len(s) >= 2 /\ s[1] = "[" /\ s[Len(s)] = "]"
      THEN LET inner == SubSeq(s, 2, Len(s) - 1)
               parts == Split(inner)
           IN  IF inner = <<>> THEN Decoded([isNil |-> FALSE, elems |-> <<>>])
               ELSE IF \E i \in 1..Len(parts) : DecodeInt(parts[i]).err
                 THEN DecodeError
                 ELSE Decoded([isNil |-> FALSE,
                               elems |-> [i \in 1..Len(parts) |->
                                            DecodeInt(parts[i]).val[1]]])
      ELSE DecodeError

\* json.Marshal(&v) for a v of type t: the encoding of v.
jsonMarshal(t, v) ==
    [ bytes |-> CASE t = "int" -> EncodeInt(v)
                  [] t = "testStruct" -> EncodeStruct(v)
                  [] t = "intSlice" -> EncodeSlice(v),
      err |-> FALSE ]

\* json.Unmarshal(data, &v) for a zero v of type t: null leaves v alone.
jsonUnmarshal(t, data) ==
    IF data = Null THEN Decoded(Zero(t))
    ELSE CASE t = "int" -> DecodeInt(data)
           [] t = "testStruct" -> DecodeStruct(data)
           [] t = "intSlice" -> DecodeSlice(data)

\* MarshalJSON that writes null whatever the Option holds.
MarshalJSONNull(t, h, p) == [bytes |-> Null, err |-> FALSE, panic |-> NoValue]

\* func (o Option[T]) MarshalJSON() ([]byte, error)
MarshalJSON(t, h, p) ==
    IF IsNone(p)
      THEN [bytes |-> Null, err |-> FALSE, panic |-> NoValue]
      ELSE [bytes |-> jsonMarshal(t, h[p]).bytes, err |-> jsonMarshal(t, h[p]).err,
            panic |-> NoValue]

\* UnmarshalJSON without the test for null.
UnmarshalJSONNoNull(t, h, p, data) ==
    LET d == jsonUnmarshal(t, data)
    IN  IF d.err THEN [h |-> h, o |-> p, err |-> TRUE, panic |-> NoValue]
        ELSE LET r == New(h, d.val[1])
             IN  [h |-> r.h, o |-> r.p, err |-> FALSE, panic |-> NoValue]

\* UnmarshalJSON without `o.value = &v`.
UnmarshalJSONDrops(t, h, p, data) ==
    IF data = Null THEN [h |-> h, o |-> NilPtr, err |-> FALSE, panic |-> NoValue]
    ELSE LET d == jsonUnmarshal(t, data)
         IN  [h |-> h, o |-> p, err |-> d.err, panic |-> NoValue]

\* UnmarshalJSON that empties the binding before it decodes.
UnmarshalJSONClears(t, h, p, data) ==
    IF data = Null THEN [h |-> h, o |-> NilPtr, err |-> FALSE, panic |-> NoValue]
    ELSE LET d == jsonUnmarshal(t, data)
         IN  IF d.err THEN [h |-> h, o |-> NilPtr, err |-> TRUE, panic |-> NoValue]
             ELSE LET r == New(h, d.val[1])
                  IN  [h |-> r.h, o |-> r.p, err |-> FALSE, panic |-> NoValue]

\* func (o *Option[T]) UnmarshalJSON(data []byte) error
UnmarshalJSON(t, h, p, data) ==
    IF data = Null THEN [h |-> h, o |-> NilPtr, err |-> FALSE, panic |-> NoValue]
    ELSE LET d == jsonUnmarshal(t, data)
         IN  IF d.err THEN [h |-> h, o |-> p, err |-> TRUE, panic |-> NoValue]
             ELSE LET r == New(h, d.val[1])
                  IN  [h |-> r.h, o |-> r.p, err |-> FALSE, panic |-> NoValue]

(* ------------------------ impl.go: fmt.Stringer ------------------------ *)

\* fmt's %v of the elements of a slice: separated by spaces.
RECURSIVE JoinSpaces(_)
JoinSpaces(xs) ==
    IF xs = <<>> THEN <<>>
    ELSE IF Len(xs) = 1 THEN EncodeInt(xs[1])
    ELSE EncodeInt(Head(xs)) \o <<" ">> \o JoinSpaces(Tail(xs))

\* fmt.Sprintf("%v", v): an int in decimal, a struct as {fields}, a slice
\* (nil or not) as [elements].
FormatValue(t, v) ==
    CASE t = "int" -> EncodeInt(v)
      [] t = "testStruct" -> <<"{">> \o v.Property \o <<"}">>
      [] t = "intSlice" -> <<"[">> \o JoinSpaces(v.elems) \o <<"]">>

\* func (o Option[T]) String() string
String(t, h, p) ==
    IF IsSome(p)
      THEN [out |-> <<"S", "o", "m", "e", "(">>
                      \o FormatValue(t, Unwrap(h, p).val[1]) \o <<")">>,
            panic |-> Unwrap(h, p).panic]
      ELSE [out |-> <<"N", "o", "n", "e">>, panic |-> NoValue]

(* --------------------------- the call record --------------------------- *)

\* The fields of `last` and their values when a call does not use them.
NoCall ==
    [ op      |-> "init",     \* the operation called
      afterTake |-> FALSE,    \* the call before it was Take
      pre     |-> NilPtr,     \* the binding's pointer before the call
      preVal  |-> NoValue,    \* the binding's value before the call
      arg     |-> NoValue,    \* the T argument
      fn      |-> NoValue,    \* the callback argument
      msg     |-> "",         \* the message argument
      data    |-> <<>>,       \* the JSON bytes given or returned
      other   |-> NoValue,    \* the Option argument (its pointer)
      otherVal |-> NoValue,   \* the value the Option argument holds
      seen    |-> NoValue,    \* the value handed to the consumer
      ropt    |-> NoValue,    \* the Option returned (its pointer)
      rptr    |-> NoValue,    \* the *T returned
      rerr    |-> NoValue,    \* the error returned
      rout    |-> NoValue,    \* a result of another type than T
      rval    |-> NoValue,    \* the T returned
      panic   |-> NoValue,    \* the panic value, if the call panicked
      err     |-> FALSE,      \* a non-nil error was returned / given
      calls   |-> 0,          \* invocations of the callback
      orCalls |-> 0,          \* invocations of the second callback
      defaults |-> 0,         \* invocations of defaultImplOrNew
      ptr     |-> NoValue,    \* the *T argument, or the pointer written through
      from    |-> "",         \* the call that gave the pointer written through
      preHeap |-> <<>> ]      \* the cells before the call

ValueAt(h, p) == IF p = NilPtr THEN NoValue ELSE Val(h[p])

Call(name) ==
    [NoCall EXCEPT !.op = name,
                   !.afterTake = (last.op = "Take"),
                   !.pre = o,
                   !.preVal = ValueAt(heap, o),
                   !.preHeap = heap]

(* ------------------------------ callers -------------------------------- *)

Msgs == {"", "Expected a value, but got nothing"}

\* Predicates: never, always, and "is the zero value".
Preds(t) ==
    { [v \in Values(t) |-> v \in S] : S \in { {}, Values(t), {Zero(t)} } }

\* Mappers: the identity and the constant functions.
Mappers(t) ==
    { [v \in Values(t) |-> v] } \cup { [v \in Values(t) |-> c] : c \in Values(t) }

\* The results of callbacks of type string, int and bool.
Results(r) ==
    CASE r = "string" -> { <<>>, <<"a">> }
      [] r = "int" -> { 0, 1 }
      [] r = "bool" -> BOOLEAN

\* Mappers to another type: they tell the zero value from the others.
MappersTo(t, r) ==
    UNION { { [v \in Values(t) |-> IF v = Zero(t) THEN a ELSE b] :
                b \in Results(r) \ {a} } : a \in Results(r) }

\* Callbacks that return an Option: one that gives the same Option for every
\* value, and one that gives None for the zero value and Some(v) otherwise.
OptionFns(t, h) ==
    { [v \in Values(t) |-> res] :
        res \in { HeldOption(q) : q \in Ptrs(h) } \cup { FreshSome(Zero(t)) } }
    \cup { [v \in Values(t) |-> IF v = Zero(t) THEN HeldOption(None) ELSE FreshSome(v)] }

\* Errors: nil (<<>>) or a non-nil error.
Errors == { NoValue, Val("no value") }

\* Functions handed to OkAndResult: one that succeeds with the value it was
\* given, one that succeeds with the zero value, one that fails.
ApplyFns(t) ==
    { [v \in Values(t) |-> [val |-> v, err |-> NoValue]],
      [v \in Values(t) |-> [val |-> Zero(t), err |-> NoValue]],
      [v \in Values(t) |-> [val |-> Zero(t), err |-> Val("failed")]] }

\* What a supplier of an Option returns.
OptionSuppliers(t, h) ==
    { HeldOption(q) : q \in Ptrs(h) } \cup { FreshSome(Zero(t)) }

\* Functions handed to AndPtrResult: they give the same pointer, nil or one
\* the caller holds, and the same error for every value.
ApplyPtrFns(t, h) ==
    { [v \in Values(t) |-> [ptr |-> q, err |-> e]] : q \in Ptrs(h), e \in Errors }

\* JSON texts handed to UnmarshalJSON: null, the encoding of every value of
\* every type, and texts that are a value of no type or no JSON at all.
JSONInputs ==
    {Null}
    \cup UNION { { jsonMarshal(t, v).bytes : v \in Values(t) } : t \in Types }
    \cup { <<>>, <<"\"", "x", "\"">>, <<"[", "1">>, <<"[", "1", ",", "]">>,
           <<"0", "1">>, <<"-">>, <<"{", "}">> }

\* The heap stays within its bound.
Fits(h) == Len(h) <= MaxHeap

Init ==
    /\ T \in Types
    /\ heap = <<>>
    /\ o = NilPtr
    /\ last = NoCall

\* opt = None[T]()
DoNone ==
    /\ o' = None
    /\ last' = [Call("None") EXCEPT !.ropt = Val(None)]
    /\ UNCHANGED <<T, heap>>

\* opt = Some(v)
DoSome ==
    /\ \E v \in Values(T) :
         LET r == Some(heap, v) IN
           /\ Fits(r.h)
           /\ heap' = r.h
           /\ o' = r.p
           /\ last' = [Call("Some") EXCEPT !.arg = Val(v), !.ropt = Val(r.p)]
    /\ UNCHANGED T

\* opt = SomePtr(p), p nil or a pointer the caller already holds
DoSomePtr ==
    /\ \E p \in Ptrs(heap) :
         LET r == SomePtr(heap, p) IN
           /\ Fits(r.h)
           /\ heap' = r.h
           /\ o' = r.p
           /\ last' = [Call("SomePtr") EXCEPT !.arg = ValueAt(heap, p),
                                              !.ptr = Val(p),
                                              !.ropt = Val(r.p)]
    /\ UNCHANGED T

\* opt = FromResult(v, err)
DoFromResult ==
    /\ \E v \in Values(T), err \in BOOLEAN :
         LET r == FromResult(heap, v, err) IN
           /\ Fits(r.h)
           /\ heap' = r.h
           /\ o' = r.p
           /\ last' = [Call("FromResult") EXCEPT !.arg = Val(v), !.err = err,
                                                 !.ropt = Val(r.p)]
    /\ UNCHANGED T

\* opt.Unwrap(); a panic is recovered by the caller
DoUnwrap ==
    /\ LET r == Unwrap(heap, o) IN
         last' = [Call("Unwrap") EXCEPT !.rval = r.val, !.panic = r.panic]
    /\ UNCHANGED <<T, heap, o>>

\* opt.Expect(msg)
DoExpect ==
    /\ \E msg \in Msgs :
         LET r == Expect(heap, o, msg) IN
           last' = [Call("Expect") EXCEPT !.msg = msg, !.rval = r.val,
                                          !.panic = r.panic]
    /\ UNCHANGED <<T, heap, o>>

\* opt.Take()
DoTake ==
    /\ LET r == Take(heap, o) IN
         /\ heap' = r.h
         /\ o' = r.o
         /\ last' = [Call("Take") EXCEPT !.ropt = Val(r.ret), !.panic = r.panic]
    /\ UNCHANGED T

\* opt.TakeIf(predicate)
DoTakeIf ==
    /\ \E predicate \in Preds(T) :
         LET r == TakeIf(heap, o, predicate) IN
           /\ heap' = r.h
           /\ o' = r.o
           /\ last' = [Call("TakeIf") EXCEPT !.fn = Val(predicate),
                                             !.ropt = Val(r.ret),
                                             !.calls = r.calls,
                                             !.panic = r.panic]
    /\ UNCHANGED T

\* opt.Replace(value)
DoReplace ==
    /\ \E value \in Values(T) :
         LET r == Replace(heap, o, value) IN
           /\ Fits(r.h)
           /\ heap' = r.h
           /\ o' = r.o
           /\ last' = [Call("Replace") EXCEPT !.arg = Val(value),
                                              !.ropt = Val(r.ret),
                                              !.panic = r.panic]
    /\ UNCHANGED T

\* opt.Insert(value)
DoInsert ==
    /\ \E value \in Values(T) :
         LET r == Insert(heap, o, value) IN
           /\ Fits(r.h)
           /\ heap' = r.h
           /\ o' = r.o
           /\ last' = [Call("Insert") EXCEPT !.arg = Val(value),
                                             !.panic = r.panic]
    /\ UNCHANGED T

\* opt.GetOrInsert(value)
DoGetOrInsert ==
    /\ \E value \in Values(T) :
         LET r == GetOrInsert(heap, o, value) IN
           /\ Fits(r.h)
           /\ heap' = r.h
           /\ o' = r.o
           /\ last' = [Call("GetOrInsert") EXCEPT !.arg = Val(value),
                                                  !.rval = r.val,
                                                  !.calls = r.calls,
                                                  !.panic = r.panic]
    /\ UNCHANGED T

\* opt.GetOrInsertWith(supplier)
DoGetOrInsertWith ==
    /\ \E supplier \in Values(T) :
         LET r == GetOrInsertWith(heap, o, supplier) IN
           /\ Fits(r.h)
           /\ heap' = r.h
           /\ o' = r.o
           /\ last' = [Call("GetOrInsertWith") EXCEPT !.fn = Val(supplier),
                                                      !.rval = r.val,
                                                      !.calls = r.calls,
                                                      !.panic = r.panic]
    /\ UNCHANGED T

\* opt.GetOrInsertDefault()
DoGetOrInsertDefault ==
    /\ LET r == GetOrInsertDefault(T, heap, o) IN
         /\ Fits(r.h)
         /\ heap' = r.h
         /\ o' = r.o
         /\ last' = [Call("GetOrInsertDefault") EXCEPT !.rval = r.val,
                                                       !.calls = r.calls,
                                                       !.defaults = r.defaults,
                                                       !.panic = r.panic]
    /\ UNCHANGED T

\* opt.UnwrapOrDefault()
DoUnwrapOrDefault ==
    /\ LET r == UnwrapOrDefault(T, heap, o) IN
         last' = [Call("UnwrapOrDefault") EXCEPT !.rval = r.val,
                                                 !.defaults = r.defaults,
                                                 !.panic = r.panic]
    /\ UNCHANGED <<T, heap, o>>

\* opt.MapOrDefault(mapper)
DoMapOrDefault ==
    /\ \E mapper \in Mappers(T) :
         LET r == MapOrDefault(T, heap, o, mapper) IN
           last' = [Call("MapOrDefault") EXCEPT !.fn = Val(mapper),
                                                !.rval = r.val,
                                                !.calls = r.calls,
                                                !.defaults = r.defaults,
                                                !.panic = r.panic]
    /\ UNCHANGED <<T, heap, o>>

\* opt.MarshalJSON()
DoMarshalJSON ==
    /\ LET r == MarshalJSON(T, heap, o) IN
         last' = [Call("MarshalJSON") EXCEPT !.data = r.bytes, !.err = r.err,
                                               !.panic = r.panic]
    /\ UNCHANGED <<T, heap, o>>

\* opt.UnmarshalJSON(data)
DoUnmarshalJSON ==
    /\ \E data \in JSONInputs :
         LET r == UnmarshalJSON(T, heap, o, data) IN
           /\ Fits(r.h)
           /\ heap' = r.h
           /\ o' = r.o
           /\ last' = [Call("UnmarshalJSON") EXCEPT !.data = data, !.err = r.err,
                                                   !.panic = r.panic]
    /\ UNCHANGED T

\* opt.And(other), opt.Or(other), opt.Xor(other), for an Option the caller
\* holds
DoAnd ==
    /\ \E other \in Ptrs(heap) :
         LET r == And(o, other) IN
           last' = [Call("And") EXCEPT !.other = Val(other),
                                       !.otherVal = ValueAt(heap, other),
                                       !.ropt = Val(r.ret), !.panic = r.panic]
    /\ UNCHANGED <<T, heap, o>>

DoOr ==
    /\ \E other \in Ptrs(heap) :
         LET r == Or(o, other) IN
           last' = [Call("Or") EXCEPT !.other = Val(other),
                                      !.otherVal = ValueAt(heap, other),
                                      !.ropt = Val(r.ret), !.panic = r.panic]
    /\ UNCHANGED <<T, heap, o>>

DoXor ==
    /\ \E other \in Ptrs(heap) :
         LET r == Xor(o, other) IN
           last' = [Call("Xor") EXCEPT !.other = Val(other),
                                       !.otherVal = ValueAt(heap, other),
                                       !.ropt = Val(r.ret), !.panic = r.panic]
    /\ UNCHANGED <<T, heap, o>>

\* opt.Filter(filter)
DoFilter ==
    /\ \E filter \in Preds(T) :
         LET r == Filter(heap, o, filter) IN
           /\ Fits(r.h)
           /\ heap' = r.h
           /\ last' = [Call("Filter") EXCEPT !.fn = Val(filter),
                                             !.ropt = Val(r.ret),
                                             !.calls = r.calls,
                                             !.panic = r.panic]
    /\ UNCHANGED <<T, o>>

\* opt.Inspect(consumer)
DoInspect ==
    /\ LET r == Inspect(heap, o) IN
         last' = [Call("Inspect") EXCEPT !.ropt = Val(r.ret), !.calls = r.calls,
                                         !.seen = r.seen, !.panic = r.panic]
    /\ UNCHANGED <<T, heap, o>>

\* opt.InspectOrElse(consumer, or)
DoInspectOrElse ==
    /\ LET r == InspectOrElse(heap, o) IN
         last' = [Call("InspectOrElse") EXCEPT !.calls = r.calls,
                                               !.orCalls = r.orCalls,
                                               !.seen = r.seen,
                                               !.panic = r.panic]
    /\ UNCHANGED <<T, heap, o>>

\* opt.Consume(consumer)
DoConsume ==
    /\ LET r == Consume(heap, o) IN
         last' = [Call("Consume") EXCEPT !.calls = r.calls, !.seen = r.seen,
                                         !.panic = r.panic]
    /\ UNCHANGED <<T, heap, o>>

\* opt.AndThen(fn)
DoAndThen ==
    /\ \E fn \in OptionFns(T, heap) :
         LET r == AndThen(heap, o, fn) IN
           /\ Fits(r.h)
           /\ heap' = r.h
           /\ last' = [Call("AndThen") EXCEPT !.fn = Val(fn),
                                              !.ropt = Val(r.ret),
                                              !.calls = r.calls,
                                              !.panic = r.panic]
    /\ UNCHANGED <<T, o>>

\* opt.Map(mapper)
DoMap ==
    /\ \E mapper \in Mappers(T) :
         LET r == Map(heap, o, mapper) IN
           /\ Fits(r.h)
           /\ heap' = r.h
           /\ last' = [Call("Map") EXCEPT !.fn = Val(mapper),
                                          !.ropt = Val(r.ret),
                                          !.calls = r.calls,
                                          !.panic = r.panic]
    /\ UNCHANGED <<T, o>>

\* opt.MapToString(mapper), opt.MapToInt(mapper), opt.MapToBool(mapper)
DoMapToString ==
    /\ \E mapper \in MappersTo(T, "string") :
         LET r == MapToString(heap, o, mapper) IN
           last' = [Call("MapToString") EXCEPT !.fn = Val(mapper),
                                               !.rout = r.out,
                                               !.calls = r.calls,
                                               !.panic = r.panic]
    /\ UNCHANGED <<T, heap, o>>

DoMapToInt ==
    /\ \E mapper \in MappersTo(T, "int") :
         LET r == MapToInt(heap, o, mapper) IN
           last' = [Call("MapToInt") EXCEPT !.fn = Val(mapper),
                                            !.rout = r.out,
                                            !.calls = r.calls,
                                            !.panic = r.panic]
    /\ UNCHANGED <<T, heap, o>>

DoMapToBool ==
    /\ \E mapper \in MappersTo(T, "bool") :
         LET r == MapToBool(heap, o, mapper) IN
           last' = [Call("MapToBool") EXCEPT !.fn = Val(mapper),
                                             !.rout = r.out,
                                             !.calls = r.calls,
                                             !.panic = r.panic]
    /\ UNCHANGED <<T, heap, o>>

\* Optional[T]{opt.value}.IfPresentOrElse(consumer, or)
DoIfPresentOrElse ==
    /\ LET r == IfPresentOrElse(heap, o) IN
         last' = [Call("IfPresentOrElse") EXCEPT !.calls = r.calls,
                                                 !.orCalls = r.orCalls,
                                                 !.seen = r.seen,
                                                 !.panic = r.panic]
    /\ UNCHANGED <<T, heap, o>>

\* opt.UnwrapOr(other)
DoUnwrapOr ==
    /\ \E other \in Values(T) :
         LET r == UnwrapOr(heap, o, other) IN
           last' = [Call("UnwrapOr") EXCEPT !.arg = Val(other), !.rval = r.val,
                                            !.panic = r.panic]
    /\ UNCHANGED <<T, heap, o>>

\* opt.UnwrapOrElse(supplier)
DoUnwrapOrElse ==
    /\ \E supplier \in Values(T) :
         LET r == UnwrapOrElse(heap, o, supplier) IN
           last' = [Call("UnwrapOrElse") EXCEPT !.fn = Val(supplier),
                                                !.rval = r.val,
                                                !.calls = r.calls,
                                                !.panic = r.panic]
    /\ UNCHANGED <<T, heap, o>>

\* opt.UnwrapUnchecked()
DoUnwrapUnchecked ==
    /\ LET r == UnwrapUnchecked(o) IN
         last' = [Call("UnwrapUnchecked") EXCEPT !.rptr = Val(r.ptr),
                                                 !.panic = r.panic]
    /\ UNCHANGED <<T, heap, o>>

\* opt.OkOr(err)
DoOkOr ==
    /\ \E err \in Errors :
         LET r == OkOr(o, err) IN
           last' = [Call("OkOr") EXCEPT !.fn = err, !.rptr = Val(r.ptr),
                                        !.rerr = r.err, !.err = r.err # NoValue,
                                        !.panic = r.panic]
    /\ UNCHANGED <<T, heap, o>>

\* opt.OkOrElse(err)
DoOkOrElse ==
    /\ \E err \in Errors :
         LET r == OkOrElse(o, err) IN
           last' = [Call("OkOrElse") EXCEPT !.fn = err, !.rptr = Val(r.ptr),
                                            !.rerr = r.err,
                                            !.err = r.err # NoValue,
                                            !.calls = r.calls,
                                            !.panic = r.panic]
    /\ UNCHANGED <<T, heap, o>>

\* opt.OrElse(supplier)
DoOrElse ==
    /\ \E supplier \in OptionSuppliers(T, heap) :
         LET r == OrElse(heap, o, supplier) IN
           /\ Fits(r.h)
           /\ heap' = r.h
           /\ last' = [Call("OrElse") EXCEPT !.fn = Val(supplier),
                                             !.ropt = Val(r.ret),
                                             !.calls = r.calls,
                                             !.panic = r.panic]
    /\ UNCHANGED <<T, o>>

\* opt.IsSomeAnd(predicate), opt.IsNoneOr(predicate)
DoIsSomeAnd ==
    /\ \E predicate \in Preds(T) :
         LET r == IsSomeAnd(heap, o, predicate) IN
           last' = [Call("IsSomeAnd") EXCEPT !.fn = Val(predicate),
                                             !.rout = Val(r.out),
                                             !.calls = r.calls,
                                             !.panic = r.panic]
    /\ UNCHANGED <<T, heap, o>>

DoIsNoneOr ==
    /\ \E predicate \in Preds(T) :
         LET r == IsNoneOr(heap, o, predicate) IN
           last' = [Call("IsNoneOr") EXCEPT !.fn = Val(predicate),
                                            !.rout = Val(r.out),
                                            !.calls = r.calls,
                                            !.panic = r.panic]
    /\ UNCHANGED <<T, heap, o>>

\* opt.MapOr(def, mapper)
DoMapOr ==
    /\ \E def \in {Zero(T), defaultImplOrNew(T)}, mapper \in Mappers(T) :
         LET r == MapOr(heap, o, def, mapper) IN
           last' = [Call("MapOr") EXCEPT !.arg = Val(def), !.fn = Val(mapper),
                                         !.rval = r.val, !.calls = r.calls,
                                         !.panic = r.panic]
    /\ UNCHANGED <<T, heap, o>>

\* opt.MapOrString(def, mapper), opt.MapOrInt(def, mapper),
\* opt.MapOrBool(def, mapper)
DoMapOrString ==
    /\ \E def \in Results("string"), mapper \in MappersTo(T, "string") :
         LET r == MapOrString(heap, o, def, mapper) IN
           last' = [Call("MapOrString") EXCEPT !.fn = Val(mapper),
                                               !.rout = Val(r.val),
                                               !.calls = r.calls,
                                               !.panic = r.panic]
    /\ UNCHANGED <<T, heap, o>>

DoMapOrInt ==
    /\ \E def \in Results("int"), mapper \in MappersTo(T, "int") :
         LET r == MapOrInt(heap, o, def, mapper) IN
           last' = [Call("MapOrInt") EXCEPT !.fn = Val(mapper),
                                            !.rout = Val(r.val),
                                            !.calls = r.calls,
                                            !.panic = r.panic]
    /\ UNCHANGED <<T, heap, o>>

DoMapOrBool ==
    /\ \E def \in Results("bool"), mapper \in MappersTo(T, "bool") :
         LET r == MapOrBool(heap, o, def, mapper) IN
           last' = [Call("MapOrBool") EXCEPT !.fn = Val(mapper),
                                             !.rout = Val(r.val),
                                             !.calls = r.calls,
                                             !.panic = r.panic]
    /\ UNCHANGED <<T, heap, o>>

\* opt.MapOrElse(supplier, mapper)
DoMapOrElse ==
    /\ \E supplier \in {Zero(T), defaultImplOrNew(T)}, mapper \in Mappers(T) :
         LET r == MapOrElse(heap, o, supplier, mapper) IN
           last' = [Call("MapOrElse") EXCEPT !.arg = Val(supplier),
                                             !.fn = Val(mapper),
                                             !.rval = r.val,
                                             !.calls = r.calls,
                                             !.orCalls = r.orCalls,
                                             !.panic = r.panic]
    /\ UNCHANGED <<T, heap, o>>

\* opt.MapOrElseString(supplier, mapper), opt.MapOrElseInt(supplier, mapper),
\* opt.MapOrElseBool(supplier, mapper)
DoMapOrElseString ==
    /\ \E supplier \in Results("string"), mapper \in MappersTo(T, "string") :
         LET r == MapOrElseString(heap, o, supplier, mapper) IN
           last' = [Call("MapOrElseString") EXCEPT !.fn = Val(mapper),
                                                   !.rout = Val(r.val),
                                                   !.calls = r.calls,
                                                   !.orCalls = r.orCalls,
                                                   !.panic = r.panic]
    /\ UNCHANGED <<T, heap, o>>

DoMapOrElseInt ==
    /\ \E supplier \in Results("int"), mapper \in MappersTo(T, "int") :
         LET r == MapOrElseInt(heap, o, supplier, mapper) IN
           last' = [Call("MapOrElseInt") EXCEPT !.fn = Val(mapper),
                                                !.rout = Val(r.val),
                                                !.calls = r.calls,
                                                !.orCalls = r.orCalls,
                                                !.panic = r.panic]
    /\ UNCHANGED <<T, heap, o>>

DoMapOrElseBool ==
    /\ \E supplier \in Results("bool"), mapper \in MappersTo(T, "bool") :
         LET r == MapOrElseBool(heap, o, supplier, mapper) IN
           last' = [Call("MapOrElseBool") EXCEPT !.fn = Val(mapper),
                                                 !.rout = Val(r.val),
                                                 !.calls = r.calls,
                                                 !.orCalls = r.orCalls,
                                                 !.panic = r.panic]
    /\ UNCHANGED <<T, heap, o>>

\* opt.OkAndResult(apply)
DoOkAndResult ==
    /\ \E apply \in ApplyFns(T) :
         LET r == OkAndResult(heap, o, apply) IN
           /\ Fits(r.h)
           /\ heap' = r.h
           /\ last' = [Call("OkAndResult") EXCEPT !.fn = Val(apply),
                                                  !.ropt = Val(r.ret),
                                                  !.calls = r.calls,
                                                  !.panic = r.panic]
    /\ UNCHANGED <<T, o>>

\* opt.String()
DoString ==
    /\ LET r == String(T, heap, o) IN
         last' = [Call("String") EXCEPT !.rout = Val(r.out), !.panic = r.panic]
    /\ UNCHANGED <<T, heap, o>>

\* opt.AndResult(apply)
DoAndResult ==
    /\ \E apply \in ApplyFns(T) :
         LET r == AndResult(heap, o, apply) IN
           /\ Fits(r.h)
           /\ heap' = r.h
           /\ last' = [Call("AndResult") EXCEPT !.fn = Val(apply),
                                                !.ropt = Val(r.ret),
                                                !.calls = r.calls,
                                                !.panic = r.panic]
    /\ UNCHANGED <<T, o>>

\* opt.AndPtrResult(apply)
DoAndPtrResult ==
    /\ \E apply \in ApplyPtrFns(T, heap) :
         LET r == AndPtrResult(heap, o, apply) IN
           /\ Fits(r.h)
           /\ heap' = r.h
           /\ last' = [Call("AndPtrResult") EXCEPT !.fn = Val(apply),
                                                   !.ropt = Val(r.ret),
                                                   !.calls = r.calls,
                                                   !.panic = r.panic]
    /\ UNCHANGED <<T, o>>

\* *p = v, right after the call that gave p to the caller or took it from
\* the caller: SomePtr(p), or p = opt.UnwrapUnchecked(), p, _ = opt.OkOr(err),
\* p, _ = opt.OkOrElse(err)
DoWrite ==
    /\ last.op \in {"SomePtr", "UnwrapUnchecked", "OkOr", "OkOrElse"}
    /\ LET p == IF last.op = "SomePtr" THEN last.ptr[1] ELSE last.rptr[1] IN
         /\ p # NilPtr
         /\ \E v \in Values(T) :
              /\ heap' = Store(heap, p, v)
              /\ last' = [Call("Write") EXCEPT !.ptr = Val(p), !.arg = Val(v),
                                               !.from = last.op]
    /\ UNCHANGED <<T, o>>

Next ==
    \/ DoNone
    \/ DoSome
    \/ DoSomePtr
    \/ DoFromResult
    \/ DoUnwrap
    \/ DoExpect
    \/ DoTake
    \/ DoTakeIf
    \/ DoReplace
    \/ DoInsert
    \/ DoGetOrInsert
    \/ DoGetOrInsertWith
    \/ DoGetOrInsertDefault
    \/ DoUnwrapOrDefault
    \/ DoMapOrDefault
    \/ DoMarshalJSON
    \/ DoUnmarshalJSON
    \/ DoAnd
    \/ DoOr
    \/ DoXor
    \/ DoFilter
    \/ DoInspect
    \/ DoInspectOrElse
    \/ DoConsume
    \/ DoAndThen
    \/ DoMap
    \/ DoMapToString
    \/ DoMapToInt
    \/ DoMapToBool
    \/ DoIfPresentOrElse
    \/ DoUnwrapOr
    \/ DoUnwrapOrElse
    \/ DoUnwrapUnchecked
    \/ DoOkOr
    \/ DoOkOrElse
    \/ DoOrElse
    \/ DoIsSomeAnd
    \/ DoIsNoneOr
    \/ DoMapOr
    \/ DoMapOrString
    \/ DoMapOrInt
    \/ DoMapOrBool
    \/ DoMapOrElse
    \/ DoMapOrElseString
    \/ DoMapOrElseInt
    \/ DoMapOrElseBool
    \/ DoOkAndResult
    \/ DoString
    \/ DoAndResult
    \/ DoAndPtrResult
    \/ DoWrite

Spec == Init /\ [][Next]_vars

(* ------------------------------ properties ----------------------------- *)

\* The Option a pointer stands for: <<>> for None, <<v>> for Some(v).
Held(p) == ValueAt(heap, p)

\* The binding is what it was before the last call.
Unchanged == o = last.pre /\ Held(o) = last.preVal

\* C1: after any sequence of constructors and mutating operations exactly one
\* of IsSome() and IsNone() is true of the binding, and a Some binding holds
\* exactly one value of T: its pointer is the address of one allocated cell.
C1_TwoStates ==
    /\ (IsSome(o) /\ ~IsNone(o)) \/ (IsNone(o) /\ ~IsSome(o))
    /\ o \in Ptrs(heap)
    /\ IsSome(o) => \E v \in Values(T) : Held(o) = Val(v)
    /\ IsNone(o) => Held(o) = NoValue

C1_Witness ==
    /\ last.op \in {"Take", "TakeIf", "Replace", "Insert", "GetOrInsert",
                    "GetOrInsertWith", "GetOrInsertDefault", "UnmarshalJSON"}
    /\ IsNone(last.pre)
    /\ IsSome(o)

\* C2: Some(v).Unwrap() and Some(v).Expect(msg) return v and do not panic;
\* None().Unwrap() panics and None().Expect(msg) panics with the value msg.
C2_UncheckedAccess ==
    /\ last.op \in {"Unwrap", "Expect"} /\ IsSome(last.pre) =>
         last.panic = NoValue /\ last.rval = last.preVal
    /\ last.op = "Unwrap" /\ IsNone(last.pre) =>
         last.panic # NoValue /\ last.rval = NoValue
    /\ last.op = "Expect" /\ IsNone(last.pre) =>
         last.panic = Val(last.msg) /\ last.rval = NoValue

C2_Witness ==
    /\ last.op = "Expect"
    /\ IsNone(last.pre)
    /\ last.msg = "Expected a value, but got nothing"
    /\ last.panic # NoValue

\* The last call was UnmarshalJSON with a non-null text that does not decode
\* as T.
DecodeFailed ==
    /\ last.op = "UnmarshalJSON"
    /\ last.data # Null
    /\ jsonUnmarshal(T, last.data).err

\* C3: for every prior state of the binding, UnmarshalJSON of a non-null text
\* that fails to decode as T returns a non-nil error and leaves the binding
\* None.
C3_DecodeFailureLeavesNone ==
    DecodeFailed => last.err /\ IsNone(o)

\* C4: Take on Some(v) returns Some(v) and leaves the binding None; Take on
\* None returns None and leaves the binding None; a Take right after a Take
\* returns None.
C4_Take ==
    last.op = "Take" =>
      /\ last.ropt # NoValue
      /\ Held(last.ropt[1]) = last.preVal
      /\ IsSome(last.ropt[1]) <=> IsSome(last.pre)
      /\ IsNone(o)
      /\ last.afterTake => IsNone(last.ropt[1])

C4_Witness ==
    /\ last.op = "Take"
    /\ IsSome(last.pre)
    /\ IsSome(last.ropt[1])
    /\ IsNone(o)

C6_ReplaceReturnsOld ==
    last.op = "Replace" =>
      IF IsSome(last.pre)
        THEN /\ Held(o) = last.arg
             /\ last.ropt # NoValue
             /\ Held(last.ropt[1]) = last.preVal
        ELSE /\ IsNone(o)
             /\ last.ropt # NoValue
             /\ Held(last.ropt[1]) = last.arg

\* C7: TakeIf(predicate) on Some(v) with predicate(v) true behaves as Take:
\* it returns Some(v) and leaves None; in every other case it returns None and
\* leaves the binding unchanged, and on None the predicate is not invoked.
C7_TakeIf ==
    last.op = "TakeIf" =>
      /\ last.ropt # NoValue
      /\ IF IsSome(last.pre) /\ last.fn[1][last.preVal[1]]
           THEN /\ Held(last.ropt[1]) = last.preVal
                /\ IsSome(last.ropt[1])
                /\ IsNone(o)
                /\ [h |-> heap, o |-> o, ret |-> last.ropt[1], panic |-> last.panic]
                     = Take(heap, last.pre)
           ELSE /\ IsNone(last.ropt[1])
                /\ Unchanged
      /\ IsNone(last.pre) => last.calls = 0

C7_Witness ==
    /\ last.op = "TakeIf"
    /\ IsSome(last.pre)
    /\ ~ last.fn[1][last.preVal[1]]
    /\ IsSome(o)

\* C8: GetOrInsert(x) and GetOrInsertWith(supplier) on Some(v) return v, leave
\* the binding Some(v) and do not invoke the supplier; on None they set the
\* binding to Some(x), return x and invoke the supplier exactly once.
C8_GetOrInsert ==
    last.op \in {"GetOrInsert", "GetOrInsertWith"} =>
      LET x == IF last.op = "GetOrInsert" THEN last.arg ELSE last.fn
      IN  IF IsSome(last.pre)
            THEN /\ last.rval = last.preVal
                 /\ Unchanged
                 /\ last.calls = 0
            ELSE /\ IsSome(o)
                 /\ Held(o) = x
                 /\ last.rval = x
                 /\ last.calls = 1

C8_Witness ==
    /\ last.op = "GetOrInsertWith"
    /\ IsSome(last.pre)
    /\ last.fn # last.preVal
    /\ last.rval = last.preVal

\* What default resolution must yield for T: the result of Default() for
\* testStruct, the zero value for int and []int.
ResolvedDefault ==
    CASE T = "testStruct" -> Val([Property |-> DefaultProperty])
      [] T = "int" -> Val(0)
      [] T = "intSlice" -> Val(NilSlice)

BytesOfSome(v) == MarshalJSON(T, <<v>>, 1).bytes

BytesOfNone == MarshalJSON(T, <<>>, None).bytes

\* C10: for every encodable v, unmarshaling the bytes MarshalJSON produces on
\* Some(v) into any binding yields Some(v) and no error, and unmarshaling the
\* bytes it produces on None yields None and no error.
C10_RoundTrip ==
    last.op = "UnmarshalJSON" =>
      /\ \A v \in Values(T) :
           last.data = BytesOfSome(v) =>
             ~ last.err /\ IsSome(o) /\ Held(o) = Val(v)
      /\ last.data = BytesOfNone => ~ last.err /\ IsNone(o)

\* C10 as amended: the round trip holds for every v whose encoding is not the
\* token null; the bytes of None, and of a Some(v) whose v encodes as null,
\* unmarshal to None.
C10_RoundTripUnlessNull ==
    last.op = "UnmarshalJSON" =>
      /\ \A v \in Values(T) :
           last.data = BytesOfSome(v) /\ BytesOfSome(v) # Null =>
             ~ last.err /\ IsSome(o) /\ Held(o) = Val(v)
      /\ last.data = BytesOfNone => ~ last.err /\ IsNone(o)

C10_Witness ==
    /\ last.op = "UnmarshalJSON"
    /\ IsSome(last.pre)
    /\ \E v \in Values(T) :
         /\ last.data = BytesOfSome(v)
         /\ Val(v) # last.preVal
         /\ Held(o) = Val(v)

\* C11: whatever the binding held, UnmarshalJSON of exactly null leaves it
\* None and returns no error; UnmarshalJSON of any other text that decodes as
\* T to a value d leaves it Some(d) and returns no error.
C11_Unmarshal ==
    last.op = "UnmarshalJSON" =>
      /\ last.data = Null => ~ last.err /\ IsNone(o)
      /\ last.data # Null /\ ~ jsonUnmarshal(T, last.data).err =>
           /\ ~ last.err
           /\ IsSome(o)
           /\ Held(o) = jsonUnmarshal(T, last.data).val

C11_Witness ==
    /\ last.op = "UnmarshalJSON"
    /\ last.data = Null
    /\ IsSome(last.pre)
    /\ IsNone(o)

\* C12: MarshalJSON on None returns the bytes null and no error; on Some(v) it
\* returns the JSON encoding of v (1 for the int 1, {"Property":""} for the
\* zero testStruct); the Option is not modified.
C12_Marshal ==
    last.op = "MarshalJSON" =>
      /\ ~ last.err
      /\ Unchanged
      /\ IsNone(last.pre) => last.data = Null
      /\ IsSome(last.pre) => last.data = jsonMarshal(T, last.preVal[1]).bytes
      /\ T = "int" /\ last.preVal = Val(1) => last.data = <<"1">>
      /\ T = "testStruct" /\ last.preVal = Val([Property |-> <<>>]) =>
           last.data = <<"{", "\"", "P", "r", "o", "p", "e", "r", "t", "y",
                         "\"", ":", "\"", "\"", "}">>

C12_Witness ==
    /\ last.op = "MarshalJSON"
    /\ IsSome(last.pre)
    /\ last.data # Null
    /\ last.data = jsonMarshal(T, last.preVal[1]).bytes

\* The pointer of the Option the last call returned.
Returned == last.ropt[1]

\* C13: And, Or and Xor follow the truth table over (receiver is Some, other
\* is Some): And gives other when both are Some and None otherwise; Or gives
\* the receiver when it is Some, else other when other is Some, else None;
\* Xor gives the receiver when only it is Some, other when only other is
\* Some, None otherwise. A returned Some holds the value of the Option the
\* table names.
C13_AndOrXor ==
    LET self  == IsSome(last.pre)
        other == IsSome(last.other[1])
    IN  /\ last.op = "And" =>
             IF self /\ other
               THEN Returned = last.other[1] /\ Held(Returned) = last.otherVal
               ELSE IsNone(Returned)
        /\ last.op = "Or" =>
             IF self
               THEN Returned = last.pre /\ Held(Returned) = last.preVal
               ELSE IF other
                 THEN Returned = last.other[1] /\ Held(Returned) = last.otherVal
                 ELSE IsNone(Returned)
        /\ last.op = "Xor" =>
             IF self /\ ~ other
               THEN Returned = last.pre /\ Held(Returned) = last.preVal
               ELSE IF other /\ ~ self
                 THEN Returned = last.other[1] /\ Held(Returned) = last.otherVal
                 ELSE IsNone(Returned)

C13_Witness ==
    /\ last.op = "And"
    /\ IsSome(last.pre)
    /\ IsSome(last.other[1])
    /\ last.otherVal # last.preVal
    /\ Held(Returned) = last.otherVal

\* C14: Optional.IfPresentOrElse runs exactly one of its two callbacks:
\* consumer(v) and not or on Present(v), or and not consumer on Empty.
C14_ExactlyOneCallback ==
    last.op = "IfPresentOrElse" =>
      IF IsPresent(last.pre)
        THEN last.calls = 1 /\ last.seen = last.preVal /\ last.orCalls = 0
        ELSE last.calls = 0 /\ last.orCalls = 1

\* C15: InspectOrElse runs exactly one of its two callbacks, once:
\* consumer(v) on Some(v), or() on None; the binding is as it was.
C15_InspectOrElse ==
    last.op = "InspectOrElse" =>
      /\ Unchanged
      /\ last.calls + last.orCalls = 1
      /\ IF IsSome(last.pre)
           THEN last.calls = 1 /\ last.seen = last.preVal /\ last.orCalls = 0
           ELSE last.calls = 0 /\ last.orCalls = 1

C15_Witness ==
    /\ last.op = "InspectOrElse"
    /\ IsSome(last.pre)
    /\ last.calls = 1
    /\ last.seen = last.preVal
    /\ last.orCalls = 0

\* C16: apart from Unwrap and Expect, no operation of Option panics when the
\* Option is None: the combinators, the other unwrapping methods, the
\* mutators, MarshalJSON, UnmarshalJSON and String all return.
C16_NoPanicOnNone ==
    /\ last.op \notin {"Unwrap", "Expect"}
    /\ IsNone(last.pre)
    => last.panic = NoValue

C16_Witness ==
    /\ last.op = "UnwrapOr"
    /\ IsNone(last.pre)
    /\ last.panic = NoValue
    /\ last.rval = last.arg

\* The methods of Option with a value receiver.
ValueReceiverOps ==
    { "Unwrap", "UnwrapOr", "UnwrapOrElse", "UnwrapOrDefault", "UnwrapUnchecked",
      "OkOr", "OkOrElse", "OrElse", "Filter",
      "Map", "MapToString", "MapToInt", "MapToBool",
      "MapOr", "MapOrString", "MapOrInt", "MapOrBool",
      "MapOrElse", "MapOrElseString", "MapOrElseInt", "MapOrElseBool",
      "MapOrDefault", "AndThen", "And", "Or", "Xor",
      "Inspect", "InspectOrElse", "Consume", "IsSomeAnd", "IsNoneOr",
      "Expect", "OkAndResult", "MarshalJSON", "String" }

\* C17: a method with a value receiver leaves the binding it is called on
\* with the presence and the value it had; Inspect returns an Option equal
\* to its receiver.
C17_ValueReceiversKeep ==
    last.op \in ValueReceiverOps =>
      /\ Unchanged
      /\ last.op = "Inspect" =>
           /\ Returned = last.pre
           /\ Held(Returned) = last.preVal

C17_Witness ==
    /\ last.op = "Inspect"
    /\ IsSome(last.pre)
    /\ last.calls = 1
    /\ Returned = o
    /\ Held(o) = last.preVal

\* C18: Filter(p) on Some(v) returns Some(v) if and only if p(v) is true and
\* None otherwise; on None it returns None and never calls p.
C18_Filter ==
    last.op = "Filter" =>
      IF IsSome(last.pre)
        THEN /\ IsSome(Returned) <=> last.fn[1][last.preVal[1]]
             /\ IsSome(Returned) => Held(Returned) = last.preVal
        ELSE IsNone(Returned) /\ last.calls = 0

C18_Witness ==
    /\ last.op = "Filter"
    /\ IsSome(last.pre)
    /\ last.fn[1][last.preVal[1]]
    /\ IsSome(Returned)
    /\ Held(Returned) = last.preVal

\* C19: Map(f), MapToString(f), MapToInt(f) and MapToBool(f) return
\* Some(f(v)) on Some(v), and None on None without calling f; Map with the
\* identity function returns an Option with the presence and the value of
\* the receiver.
C19_Map ==
    /\ last.op = "Map" =>
         /\ IF IsSome(last.pre)
              THEN /\ IsSome(Returned)
                   /\ Held(Returned) = Val(last.fn[1][last.preVal[1]])
              ELSE IsNone(Returned) /\ last.calls = 0
         /\ last.fn[1] = [v \in Values(T) |-> v] =>
              /\ IsSome(Returned) <=> IsSome(last.pre)
              /\ Held(Returned) = last.preVal
    /\ last.op \in {"MapToString", "MapToInt", "MapToBool"} =>
         IF IsSome(last.pre)
           THEN last.rout = Val(last.fn[1][last.preVal[1]])
           ELSE last.rout = NoValue /\ last.calls = 0

C19_Witness ==
    /\ last.op = "Map"
    /\ IsSome(last.pre)
    /\ IsSome(Returned)
    /\ Held(Returned) = Val(last.fn[1][last.preVal[1]])
    /\ Held(Returned) # last.preVal

\* C20: AndThen(fn) on Some(v) returns the Option fn(v) returned, as fn
\* returned it; on None it returns None and never calls fn.
C20_AndThen ==
    last.op = "AndThen" =>
      IF IsSome(last.pre)
        THEN LET res == last.fn[1][last.preVal[1]]
             IN  /\ last.calls = 1
                 /\ IF res.fresh = NoValue
                      THEN Returned = res.p
                      ELSE IsSome(Returned) /\ Held(Returned) = res.fresh
        ELSE IsNone(Returned) /\ last.calls = 0

C20_Witness ==
    /\ last.op = "AndThen"
    /\ IsSome(last.pre)
    /\ last.calls = 1
    /\ IsSome(Returned)
    /\ Held(Returned) # last.preVal

\* C21: FromResult(value, err) is Some(value) when err is nil and None when
\* it is not; OkAndResult(apply) and AndResult(apply) return Some(r) exactly
\* when the receiver is Some(v) and apply(v) gives (r, nil), and None
\* otherwise; AndPtrResult(apply) also returns None when apply gives a nil
\* pointer; apply is never called on None.
C21_Results ==
    /\ last.op = "FromResult" =>
         IF last.err
           THEN IsNone(Returned) /\ IsNone(o)
           ELSE IsSome(Returned) /\ Held(Returned) = last.arg /\ o = Returned
    /\ last.op \in {"OkAndResult", "AndResult"} =>
         IF IsSome(last.pre)
           THEN LET a == last.fn[1][last.preVal[1]]
                IN  /\ last.calls = 1
                    /\ IF a.err = NoValue
                         THEN IsSome(Returned) /\ Held(Returned) = Val(a.val)
                         ELSE IsNone(Returned)
           ELSE IsNone(Returned) /\ last.calls = 0
    /\ last.op = "AndPtrResult" =>
         IF IsSome(last.pre)
           THEN LET a == last.fn[1][last.preVal[1]]
                IN  /\ last.calls = 1
                    /\ IF a.err = NoValue /\ a.ptr # NilPtr
                         THEN IsSome(Returned) /\ Held(Returned) = Held(a.ptr)
                         ELSE IsNone(Returned)
           ELSE IsNone(Returned) /\ last.calls = 0

C21_Witness ==
    /\ last.op = "OkAndResult"
    /\ IsSome(last.pre)
    /\ last.fn[1][last.preVal[1]].err = NoValue
    /\ IsSome(Returned)
    /\ Held(Returned) # last.preVal

\* C22: OkOr(err) and OkOrElse(err) on Some(v) return a non-nil pointer
\* whose target is v and a nil error, and the error supplier is not called;
\* on None they return a nil pointer and err, the supplier being called
\* exactly once.
C22_OkOr ==
    last.op \in {"OkOr", "OkOrElse"} =>
      /\ IF IsSome(last.pre)
           THEN /\ last.rptr[1] # NilPtr
                /\ Held(last.rptr[1]) = last.preVal
                /\ last.rerr = NoValue
           ELSE /\ last.rptr[1] = NilPtr
                /\ last.rerr = last.fn
      /\ last.op = "OkOrElse" => last.calls = IF IsSome(last.pre) THEN 0 ELSE 1

C22_Witness ==
    /\ last.op = "OkOrElse"
    /\ IsNone(last.pre)
    /\ last.calls = 1
    /\ last.rerr # NoValue
    /\ last.rptr[1] = NilPtr

\* C23: UnwrapOr(other) and UnwrapOrElse(supplier) on Some(v) return v, and
\* the supplier is not called; on None UnwrapOr returns other and
\* UnwrapOrElse what one call of the supplier gives.
C23_UnwrapOr ==
    /\ last.op = "UnwrapOr" =>
         last.rval = IF IsSome(last.pre) THEN last.preVal ELSE last.arg
    /\ last.op = "UnwrapOrElse" =>
         IF IsSome(last.pre)
           THEN last.rval = last.preVal /\ last.calls = 0
           ELSE last.rval = last.fn /\ last.calls = 1

C23_Witness ==
    /\ last.op = "UnwrapOrElse"
    /\ IsSome(last.pre)
    /\ last.fn # last.preVal
    /\ last.rval = last.preVal
    /\ last.calls = 0

\* C24: IsSomeAnd(p) is true exactly when the Option is Some(v) and p(v) is
\* true; IsNoneOr(p) is true exactly when the Option is None or is Some(v)
\* with p(v) true; on None p is not called.
C24_IsSomeAndIsNoneOr ==
    /\ last.op = "IsSomeAnd" =>
         last.rout[1] <=> (IsSome(last.pre) /\ last.fn[1][last.preVal[1]])
    /\ last.op = "IsNoneOr" =>
         last.rout[1] <=> (IsNone(last.pre) \/ last.fn[1][last.preVal[1]])
    /\ last.op \in {"IsSomeAnd", "IsNoneOr"} /\ IsNone(last.pre) => last.calls = 0

C24_Witness ==
    /\ last.op = "IsNoneOr"
    /\ IsNone(last.pre)
    /\ last.rout = Val(TRUE)
    /\ last.calls = 0

\* C25: SomePtr(p) is None when p is nil and Some when it is not; it holds p
\* itself, so that after a write through p an Unwrap of that Option returns
\* the value written.
C25_SomePtr ==
    /\ last.op = "SomePtr" =>
         /\ last.ptr[1] = NilPtr <=> IsNone(Returned)
         /\ Returned = last.ptr[1]
         /\ Held(Returned) = last.arg
         /\ o = Returned
    /\ last.op = "Write" /\ last.from = "SomePtr" =>
         /\ IsSome(o)
         /\ Unwrap(heap, o) = [panic |-> NoValue, val |-> last.arg]

C25_Witness ==
    /\ last.op = "Write"
    /\ last.from = "SomePtr"
    /\ last.arg # last.preVal
    /\ Unwrap(heap, o).val = last.arg

\* C26: when UnmarshalJSON returns a non-nil error the binding is as it was
\* before the call: Some(old) is still Some(old), None is still None.
C26_ErrorKeepsBinding ==
    last.op = "UnmarshalJSON" /\ last.err => Unchanged

C26_Witness ==
    /\ last.op = "UnmarshalJSON"
    /\ last.err
    /\ IsSome(last.pre)
    /\ IsSome(o)
    /\ Held(o) = last.preVal

\* The one-slot register: its state is Empty (<<>>) or Present(v) (<<v>>);
\* an operation gives the next state and what it returns.
RegTake(a) == [state |-> NoValue, ret |-> a]

RegTakeIf(a, predicate) ==
    IF a # NoValue /\ predicate[a[1]] THEN RegTake(a)
    ELSE [state |-> a, ret |-> NoValue]

RegReplace(a, v) == [state |-> Val(v), ret |-> Val(v)]

RegInsert(a, v) == [state |-> Val(v), ret |-> NoValue]

RegGetOrInsert(a, v) ==
    IF a = NoValue THEN [state |-> Val(v), ret |-> Val(v)]
    ELSE [state |-> a, ret |-> a]

RegisterOps ==
    {"Take", "TakeIf", "Replace", "Insert", "GetOrInsert", "GetOrInsertWith"}

\* The register's step for the last call, from the state the binding had.
RegStep ==
    CASE last.op = "Take" -> RegTake(last.preVal)
      [] last.op = "TakeIf" -> RegTakeIf(last.preVal, last.fn[1])
      [] last.op = "Replace" -> RegReplace(last.preVal, last.arg[1])
      [] last.op = "Insert" -> RegInsert(last.preVal, last.arg[1])
      [] last.op = "GetOrInsert" -> RegGetOrInsert(last.preVal, last.arg[1])
      [] last.op = "GetOrInsertWith" -> RegGetOrInsert(last.preVal, last.fn[1])

\* What the last call returned: the value in the Option, or the T, returned.
Result ==
    IF last.op \in {"Take", "TakeIf", "Replace"} THEN Held(Returned)
    ELSE IF last.op = "Insert" THEN NoValue
    ELSE last.rval

MutatorOps ==
    { "Take", "TakeIf", "Replace", "Insert", "GetOrInsert", "GetOrInsertWith",
      "GetOrInsertDefault", "UnmarshalJSON" }

\* C28: a mutator never writes through storage that existed before the call:
\* every cell an Option obtained earlier can point to holds after Take,
\* TakeIf, Replace, Insert, GetOrInsert*, UnmarshalJSON what it held before;
\* so a copy of the binding made before the call has the presence and the
\* value it had.
C28_OldStorageKept ==
    last.op \in MutatorOps =>
      /\ \A q \in Addrs(last.preHeap) : heap[q] = last.preHeap[q]
      /\ Held(last.pre) = last.preVal

C28_Witness ==
    /\ last.op = "Replace"
    /\ IsSome(last.pre)
    /\ last.arg # last.preVal
    /\ Held(o) = last.arg
    /\ Held(last.pre) = last.preVal

\* C29: the pointer OkOr, OkOrElse and UnwrapUnchecked return on Some is the
\* pointer the Option holds; a write through it changes what Unwrap returns
\* for every Option holding that pointer, and no other cell; the Options
\* Inspect, Or, Xor, And and Take return hold the pointer of the Option they
\* return, while Some(v), Filter, Map and OrElse on Some return an Option
\* with a cell of its own.
C29_Storage ==
    /\ last.op \in {"OkOr", "OkOrElse", "UnwrapUnchecked"} /\ IsSome(last.pre) =>
         last.rptr[1] = last.pre
    /\ last.op = "Write" /\ last.from \in {"OkOr", "OkOrElse", "UnwrapUnchecked"} =>
         /\ last.ptr[1] = o
         /\ Unwrap(heap, o) = [panic |-> NoValue, val |-> last.arg]
         /\ \A q \in Addrs(heap) \ {last.ptr[1]} : heap[q] = last.preHeap[q]
    /\ last.op \in {"Inspect", "Take"} => Returned = last.pre
    /\ last.op \in {"Or", "Xor", "And"} /\ IsSome(Returned) =>
         Returned \in {last.pre, last.other[1]}
    /\ last.op \in {"Filter", "Map", "OrElse"} /\ IsSome(last.pre) /\ IsSome(Returned) =>
         Returned \notin Addrs(last.preHeap)
    /\ last.op \in {"Filter", "OrElse"} /\ IsSome(last.pre) /\ IsSome(Returned) =>
         Held(Returned) = last.preVal
    /\ last.op = "Some" =>
         Returned \notin Addrs(last.preHeap) /\ Held(Returned) = last.arg

\* A write through the pointer OkOr returned, with a second cell that holds
\* the old value before and after it.
C29_Witness ==
    /\ last.op = "Write"
    /\ last.from = "OkOr"
    /\ last.arg # last.preVal
    /\ Unwrap(heap, o).val = last.arg
    /\ \E q \in Addrs(heap) \ {o} : heap[q] = last.preVal[1]

\* C30: a call of an Option method calls each callback it was given at most
\* once: the predicate of Filter, TakeIf, IsSomeAnd and IsNoneOr, the
\* function of Map*, MapOr*, AndThen and OkAndResult, the supplier of
\* UnwrapOrElse, OkOrElse, OrElse, MapOrElse* and GetOrInsertWith.
C30_AtMostOnce ==
    last.op # "IfPresentOrElse" => last.calls <= 1 /\ last.orCalls <= 1

C30_Witness ==
    /\ last.op = "TakeIf"
    /\ IsSome(last.pre)
    /\ last.fn[1][last.preVal[1]]
    /\ last.calls = 1
    /\ IsNone(o)

====
